---- MODULE Spec2Model ----
(***************************************************************************)
(* Model of sse_gnn/gp/gp_trainer.py: GPTrainer (construction, checkpoint  *)
(* restore, predict, the train_model generator and optimize_cycle) and     *)
(* GPMetrics (mean/stddev refresh, sharpness, variation).                  *)
(*                                                                         *)
(* Floating point values are abstracted:                                   *)
(*   - amplitude and length_scale range over 1..MaxHyper, 1 being the      *)
(*     constructor's 1.0; the Adam update is a nondeterministic choice;    *)
(*   - a scalar computed from the kernel at hyperparameters (a, l) is the  *)
(*     code Enc(a, l): distinct hyperparameters give distinct values;      *)
(*   - NaN and Inf are the distinguished values np.nan and np.inf.         *)
(***************************************************************************)
EXTENDS Integers, Sequences, FiniteSets, TLC

VARIABLES
    pc,                 \* position of the caller / of the train_model generator
    n_points, n_obs,    \* lengths of observation_index_points and observations
    amplitude, length_scale, optimizer, training_steps, loss, metrics,
    ckpt_manager,       \* TRUE iff checkpoint_dir was passed
    disk,               \* the checkpoint directory: NoCkpt or the one kept checkpoint
    default_metrics,    \* the list object bound to train_model's default `metrics=[]`
    epochs, patience, metrics_list, uses_default,   \* arguments of the call
    i, best_val_nll, steps_since_improvement,                 \* locals of the call
    gp_metrics,         \* GPMetrics.mean / .stddevs: where they were computed
    metric_dict,        \* the snapshot last yielded
    error,              \* the exception that ended the call, if any
    hist,               \* history of the current call (not program state)
    saved_from,         \* history: the saving trainer's state when disk was written
    calls, trainers,    \* train_model calls / trainers constructed so far
    max_calls, max_trainers,  \* how many of each the explored behaviours hold
    max_steps,          \* the largest training_steps the explored behaviours reach
    stddevs, sharpness_out, variation_out  \* GPMetrics numerics (SpecNum only)

vars == <<pc, n_points, n_obs, amplitude, length_scale, optimizer, training_steps,
          loss, metrics, ckpt_manager, disk, default_metrics, epochs, patience,
          metrics_list, uses_default, i, best_val_nll,
          steps_since_improvement, gp_metrics, metric_dict, error,
          hist, saved_from, calls, trainers, max_calls, max_trainers, max_steps, stddevs, sharpness_out, variation_out>>

trainerVars == <<n_points, n_obs, amplitude, length_scale, optimizer,
                 training_steps, loss, metrics, ckpt_manager>>
callVars == <<epochs, patience, metrics_list, uses_default, i,
              best_val_nll, steps_since_improvement, gp_metrics, metric_dict,
              error, hist>>
numVars == <<max_calls, max_trainers, max_steps, stddevs, sharpness_out, variation_out>>

----------------------------------------------------------------------------
(* Bounds *)
MaxHyper == 2       \* abstract hyperparameter values 1..MaxHyper
FewSteps == 2       \* cap on training_steps in the behaviours of SpecCkpt
MaxEpochs == 4      \* largest `epochs` argument
MaxPatience == 3    \* largest `patience` argument
MaxPoints == 2      \* largest number of index points
MaxCalls == 2       \* train_model calls in one behaviour of SpecCkpt
MaxTrainers == 2    \* trainers constructed in one behaviour of SpecCkpt
MaxLen == 3         \* longest stddev vector (SpecNum)
MaxStd == 3         \* largest stddev entry (SpecNum)

(* Special floating point values *)
NaN == -1
Inf == 1000
Scale == 100        \* fixed-point unit of sharpness_out / variation_out

NoCkpt == [step |-> -1]
NoError == [kind |-> "none", name |-> ""]
\* pre: trainer state when train_model was called; passed: the list passed;
\* start_nll / start_best: metrics["nll"] and best_val_nll after line 243;
\* seen_min: least validation NLL of the epochs resumed so far (prev_min: before
\* the last one); last_nll / saved_last: the last resumed epoch's NLL and whether
\* it wrote a checkpoint; improved_at: training_steps of the last improvement.
NoHist == [pre |-> <<>>, passed |-> <<>>, start_nll |-> NaN, start_best |-> NaN,
           seen_min |-> Inf, prev_min |-> Inf, last_nll |-> NaN, saved_last |-> FALSE,
           opt_steps |-> 0, improved_at |-> -1, broke |-> FALSE, yields |-> 0]

Hyper == 1..MaxHyper
Enc(a, l) == (a - 1) * MaxHyper + (l - 1)

MetricKeys == {"nll", "mae", "sharpness", "variation", "calibration_err"}
REQUIRES_MEAN == {"mae", "calibration_err", "residuals", "pis"}
REQUIRES_STDDEV == {"sharpness", "variation"}
\* names for which getattr(gp_metrics, name) succeeds
GPMetricsAttrs == MetricKeys \cup {"residuals", "pis", "mean", "stddevs"}

\* the metric lists a caller passes
MetricLists == {<<>>, <<"nll">>, <<"mae">>, <<"sharpness">>, <<"variation">>,
                <<"calibration_err">>, <<"residuals">>, <<"pis">>, <<"bogus">>,
                <<"mean">>, <<"mae", "pis">>, <<"sharpness", "bogus">>}
\* the lists passed in the behaviours with several trainers and calls
FewMetricLists == {<<>>, <<"mae">>}
FewEpochs == 2      \* largest `epochs` in those behaviours
FewPatience == 2    \* the `patience` passed in those behaviours, when one is

Range(s) == {s[k] : k \in 1..Len(s)}

----------------------------------------------------------------------------
(* Floating point comparison: any comparison with NaN is False *)
Less(x, y) == x # NaN /\ y # NaN /\ x < y

DefaultMetrics == [m \in MetricKeys |-> NaN]

----------------------------------------------------------------------------
InitState ==
    /\ n_points = 0 /\ n_obs = 0
    /\ amplitude = 1 /\ length_scale = 1 /\ optimizer = 0
    /\ training_steps = 0 /\ loss = NaN /\ metrics = DefaultMetrics
    /\ ckpt_manager = FALSE
    /\ disk = NoCkpt
    /\ default_metrics = <<>>
    /\ epochs = 0 /\ patience = 0
    /\ metrics_list = <<>> /\ uses_default = FALSE
    /\ i = 0 /\ best_val_nll = Inf /\ steps_since_improvement = 1
    /\ gp_metrics = [mean |-> <<1, 1>>, stddevs |-> <<1, 1>>, mean_step |-> 0, std_step |-> 0]
    /\ metric_dict = <<>>
    /\ error = NoError
    /\ hist = NoHist
    /\ saved_from = <<>>
    /\ calls = 0 /\ trainers = 0
    /\ sharpness_out = NaN /\ variation_out = NaN

InitTrainer == pc = "none" /\ InitState /\ stddevs = <<>>

(* One trainer with matching shapes, one train_model call, every argument *)
Init == InitTrainer /\ max_calls = 1 /\ max_trainers = 1 /\ max_steps = MaxEpochs

(* Several trainers, each constructed on the one checkpoint directory, and *)
(* several train_model calls                                               *)
InitCkpt ==
    InitTrainer /\ max_calls = MaxCalls /\ max_trainers = MaxTrainers /\ max_steps = FewSteps


----------------------------------------------------------------------------
(* tf.train.Checkpoint(step=, amp=, ls=, loss=, val_nll=, ...) written by    *)
(* CheckpointManager.save(training_steps): the tracked values, keyed by the  *)
(* checkpoint number.                                                        *)
CheckpointDropsLoss(number, step, amp, ls, lss, mets) ==
    [key |-> number, step |-> step, amp |-> amp, ls |-> ls, loss |-> NaN,
     val_nll |-> mets["nll"], val_mae |-> mets["mae"],
     val_sharpness |-> mets["sharpness"], val_coeff_var |-> mets["variation"],
     val_cal_err |-> mets["calibration_err"]]

Checkpoint(number, step, amp, ls, lss, mets) ==
    [key |-> number, step |-> step, amp |-> amp, ls |-> ls, loss |-> lss,
     val_nll |-> mets["nll"], val_mae |-> mets["mae"],
     val_sharpness |-> mets["sharpness"], val_coeff_var |-> mets["variation"],
     val_cal_err |-> mets["calibration_err"]]

(* The state __init__ sets before it looks at checkpoint_dir *)
Defaults ==
    [training_steps |-> 0, amplitude |-> 1, length_scale |-> 1, loss |-> NaN,
     metrics |-> DefaultMetrics]

(* ckpt.restore(latest_checkpoint): every tracked variable takes the stored value *)
RestoreKeepsMetrics(ck) ==
    [training_steps |-> ck.step, amplitude |-> ck.amp, length_scale |-> ck.ls,
     loss |-> ck.loss, metrics |-> DefaultMetrics]

Restore(ck) ==
    [training_steps |-> ck.step, amplitude |-> ck.amp, length_scale |-> ck.ls,
     loss |-> ck.loss,
     metrics |-> [m \in MetricKeys |->
                    CASE m = "nll" -> ck.val_nll
                      [] m = "mae" -> ck.val_mae
                      [] m = "sharpness" -> ck.val_sharpness
                      [] m = "variation" -> ck.val_coeff_var
                      [] OTHER -> ck.val_cal_err]]

(* the caller is between operations and the explored behaviour has room *)
CanConstruct == pc \in {"none", "idle", "done", "failed", "closed"} /\ trainers < max_trainers

(* GPTrainer.__init__(observation_index_points, observations, checkpoint_dir) *)
Construct(np, no, dir) ==
    /\ CanConstruct
    /\ trainers' = trainers + 1
    /\ LET st == IF dir /\ disk # NoCkpt THEN Restore(disk) ELSE Defaults IN
        /\ training_steps' = st.training_steps
        /\ amplitude' = st.amplitude
        /\ length_scale' = st.length_scale
        /\ loss' = st.loss
        /\ metrics' = st.metrics
    /\ n_points' = np /\ n_obs' = no
    /\ optimizer' = 0
    /\ ckpt_manager' = dir
    /\ pc' = "idle"
    /\ epochs' = 0 /\ patience' = 0
    /\ metrics_list' = <<>> /\ uses_default' = FALSE
    /\ i' = 0 /\ best_val_nll' = Inf /\ steps_since_improvement' = 1
    /\ gp_metrics' = [mean |-> <<1, 1>>, stddevs |-> <<1, 1>>, mean_step |-> 0, std_step |-> 0]
    /\ metric_dict' = <<>> /\ error' = NoError
    /\ hist' = NoHist
    /\ UNCHANGED <<disk, saved_from, default_metrics, calls, numVars>>

(* GPTrainer.predict / get_model: build the regression model from the      *)
(* kernel and return (mean, stddev); nothing is assigned.                   *)
PredictResetsKernel ==
    /\ pc \in {"idle", "done", "failed", "closed", "suspended"}
    /\ amplitude' = 1 /\ length_scale' = 1
    /\ UNCHANGED <<pc, n_points, n_obs, optimizer, training_steps, loss, metrics,
                   ckpt_manager, disk, saved_from, default_metrics, callVars, calls,
                   trainers, numVars>>

Predict ==
    /\ pc \in {"idle", "done", "failed", "closed", "suspended"}
    /\ UNCHANGED vars

(* a trainer exists, no generator is running, the behaviour has room *)
CanCall == pc \in {"idle", "done", "failed", "closed"} /\ calls < max_calls

(* train_model(...) is called: a generator object is made, the arguments are *)
(* bound (an omitted `metrics` is the shared default list), no code runs.    *)
(* patience = 0 stands for None and 0 alike: the code only tests its truth.  *)
Call(e, p, ml, dflt) ==
    /\ CanCall
    /\ training_steps + e <= max_steps
    /\ calls' = calls + 1
    /\ epochs' = e /\ patience' = p
    /\ uses_default' = dflt
    /\ metrics_list' = IF dflt THEN default_metrics ELSE ml
    /\ i' = 0 /\ best_val_nll' = Inf /\ steps_since_improvement' = 1
    /\ metric_dict' = <<>> /\ error' = NoError
    /\ hist' = [NoHist EXCEPT !.pre = <<amplitude, length_scale, optimizer, loss,
                                          training_steps>>,
                               !.passed = metrics_list']
    /\ pc' = "created"
    /\ UNCHANGED <<trainerVars, disk, saved_from, default_metrics, gp_metrics,
                   trainers, numVars>>

(* lines 240-243 *)
InitBestAlwaysInf(nll) == Inf

InitBest(nll) == IF nll = NaN THEN Inf ELSE nll

(* line 245 *)
NeedsNllOnlyPatience(mgr, p, lst) == p # 0 /\ "nll" \notin Range(lst)

NeedsNll(mgr, p, lst) == (mgr \/ p # 0) /\ "nll" \notin Range(lst)

(* First next(): lines 240-250, up to the loop (with epochs = 0 the generator  *)
(* returns at once). GPMetrics.__init__ builds the                            *)
(* regression model and computes mean and stddevs; with mismatched shapes the *)
(* linear algebra may raise or broadcast.                                     *)
Start ==
    /\ pc = "created"
    /\ best_val_nll' = InitBest(metrics["nll"])
    /\ metrics_list' = IF NeedsNll(ckpt_manager, patience, metrics_list)
                       THEN Append(metrics_list, "nll") ELSE metrics_list
    /\ default_metrics' = IF uses_default THEN metrics_list' ELSE default_metrics
    /\ steps_since_improvement' = 1
    /\ hist' = [hist EXCEPT !.start_best = best_val_nll', !.start_nll = metrics["nll"]]
    /\ \/ /\ gp_metrics' = [mean |-> <<amplitude, length_scale>>,
                            stddevs |-> <<amplitude, length_scale>>,
                            mean_step |-> training_steps, std_step |-> training_steps]
          /\ pc' = IF epochs > 0 THEN "opt" ELSE "done"
          /\ error' = error
       \/ /\ n_points # n_obs
          /\ pc' = "failed"
          /\ error' = [kind |-> "ShapeError", name |-> ""]
          /\ gp_metrics' = gp_metrics
    /\ UNCHANGED <<trainerVars, disk, saved_from, epochs, patience, uses_default, i,
                   metric_dict, calls, trainers, numVars>>

(* lines 253-254 and optimize_cycle (293-306): the loss at the current        *)
(* hyperparameters, one Adam update of amplitude and length_scale, step + 1.  *)
OptimizeCycle ==
    /\ pc = "opt"
    /\ \/ /\ \E a \in Hyper, l \in Hyper : amplitude' = a /\ length_scale' = l
          /\ optimizer' = optimizer + 1
          /\ loss' = Enc(amplitude, length_scale)
          /\ training_steps' = training_steps + 1
          /\ hist' = [hist EXCEPT !.opt_steps = @ + 1]
          /\ pc' = "metrics"
          /\ error' = error
       \/ /\ n_points # n_obs
          /\ pc' = "failed"
          /\ error' = [kind |-> "ShapeError", name |-> ""]
          /\ UNCHANGED <<amplitude, length_scale, optimizer, loss, training_steps, hist>>
    /\ UNCHANGED <<n_points, n_obs, metrics, ckpt_manager, disk, saved_from,
                   default_metrics, epochs, patience, metrics_list, uses_default, i,
                   best_val_nll, steps_since_improvement, gp_metrics, metric_dict,
                   calls, trainers, numVars>>

----------------------------------------------------------------------------
(* GPMetrics properties as functions of what they read: nll reads the live   *)
(* regression model (kernel at a, l); the others read the stored mean and    *)
(* stddevs (gm), which hold the hyperparameters they were computed at.       *)
MetricValue(m, gm, a, l) ==
    CASE m = "nll" -> Enc(a, l)
      [] m = "mae" -> Enc(gm.mean[1], gm.mean[2])
      [] m = "residuals" -> Enc(gm.mean[1], gm.mean[2])
      [] m \in {"sharpness", "variation"} -> Enc(gm.stddevs[1], gm.stddevs[2])
      [] m \in {"calibration_err", "pis"} ->
            Enc(gm.mean[1], gm.mean[2]) * MaxHyper * MaxHyper
              + Enc(gm.stddevs[1], gm.stddevs[2])
      [] m = "mean" -> Enc(gm.mean[1], gm.mean[2])
      [] OTHER -> Enc(gm.stddevs[1], gm.stddevs[2])

(* the properties whose value is computed from the stored self.mean (mae,    *)
(* residuals, and through residuals pis and calibration_err) and from the    *)
(* stored self.stddevs (sharpness, variation, and pis and calibration_err,   *)
(* which divide the residuals by them)                                       *)
ReadsMean == {"mae", "residuals", "pis", "calibration_err", "mean"}
ReadsStddev == {"sharpness", "variation", "pis", "calibration_err", "stddevs"}

(* lines 257-260: refresh mean / stddevs when a requested metric declares it *)
Refreshed(gm, lst, a, l, step) ==
    [mean |-> IF REQUIRES_MEAN \cap Range(lst) # {} THEN <<a, l>> ELSE gm.mean,
     mean_step |-> IF REQUIRES_MEAN \cap Range(lst) # {} THEN step ELSE gm.mean_step,
     stddevs |-> IF REQUIRES_STDDEV \cap Range(lst) # {} THEN <<a, l>> ELSE gm.stddevs,
     std_step |-> IF REQUIRES_STDDEV \cap Range(lst) # {} THEN step ELSE gm.std_step]

(* positions of the list whose name makes getattr / self.metrics[...] raise *)
BadAttr(lst) == {k \in 1..Len(lst) : lst[k] \notin GPMetricsAttrs}
BadKey(lst) == {k \in 1..Len(lst) : lst[k] \notin MetricKeys}
First(S) == CHOOSE k \in S : \A j \in S : k <= j

(* self.metrics after assigning the first n entries of the list (269-270) *)
Assigned(mets, lst, n, gm, a, l) ==
    [m \in MetricKeys |->
        IF \E k \in 1..n : lst[k] = m THEN MetricValue(m, gm, a, l) ELSE mets[m]]

(* lines 256-273: refresh, build metric_dict, assign into self.metrics, add   *)
(* the loss and yield.  An unknown attribute raises ValueError before any     *)
(* assignment; a name that is no key of self.metrics raises KeyError at its   *)
(* assignment, after the earlier names were assigned.                         *)
ComputeMetrics ==
    /\ pc = "metrics"
    /\ LET gm == Refreshed(gp_metrics, metrics_list, amplitude, length_scale, training_steps) IN
        /\ gp_metrics' = gm
        /\ IF BadAttr(metrics_list) # {}
           THEN /\ error' = [kind |-> "ValueError",
                             name |-> metrics_list[First(BadAttr(metrics_list))]]
                /\ pc' = "failed"
                /\ UNCHANGED <<metrics, metric_dict, hist>>
           ELSE IF BadKey(metrics_list) # {}
           THEN /\ error' = [kind |-> "KeyError",
                             name |-> metrics_list[First(BadKey(metrics_list))]]
                /\ metrics' = Assigned(metrics, metrics_list,
                                       First(BadKey(metrics_list)) - 1,
                                       gm, amplitude, length_scale)
                /\ pc' = "failed"
                /\ UNCHANGED <<metric_dict, hist>>
           ELSE /\ metrics' = Assigned(metrics, metrics_list, Len(metrics_list),
                                       gm, amplitude, length_scale)
                /\ metric_dict' = [m \in Range(metrics_list) \cup {"loss"} |->
                                     IF m = "loss" THEN loss
                                     ELSE MetricValue(m, gm, amplitude, length_scale)]
                /\ hist' = [hist EXCEPT !.yields = @ + 1]
                /\ pc' = "suspended"
                /\ error' = error
    /\ UNCHANGED <<n_points, n_obs, amplitude, length_scale, optimizer,
                   training_steps, loss, ckpt_manager, disk, saved_from,
                   default_metrics, epochs, patience, metrics_list, uses_default, i,
                   best_val_nll, steps_since_improvement, calls, trainers, numVars>>

(* line 276 *)
Improved(nll, best) == Less(nll, best)

(* line 283 *)
PatienceExceededUnset(p, since) == since >= p

PatienceExceeded(p, since) == p # 0 /\ since >= p

Min(x, y) == IF x <= y THEN x ELSE y

(* History of one resumed epoch *)
Seen(h, nll, saved) ==
    [h EXCEPT !.prev_min = h.seen_min, !.seen_min = Min(h.seen_min, nll),
              !.last_nll = nll, !.saved_last = saved]

(* The consumer asks for the next snapshot: lines 275-288 and the loop test;  *)
(* when the loop ends (exhausted or broken out of) the generator returns      *)
(* (saving the model to save_dir, line 290, changes nothing modelled here).   *)
Resume ==
    /\ pc = "suspended"
    /\ IF patience # 0 \/ ckpt_manager
       THEN IF Improved(metrics["nll"], best_val_nll)
            THEN /\ best_val_nll' = metrics["nll"]
                 /\ steps_since_improvement' = 1
                 /\ IF ckpt_manager
                    THEN /\ disk' = Checkpoint(training_steps, training_steps, amplitude,
                                               length_scale, loss, metrics)
                         /\ saved_from' = <<amplitude, length_scale, training_steps, loss>>
                    ELSE UNCHANGED <<disk, saved_from>>
                 /\ hist' = [Seen(hist, metrics["nll"], ckpt_manager)
                               EXCEPT !.improved_at = training_steps]
                 /\ i' = i + 1
                 /\ pc' = IF i + 1 < epochs THEN "opt" ELSE "done"
            ELSE /\ steps_since_improvement' = steps_since_improvement + 1
                 /\ IF PatienceExceeded(patience, steps_since_improvement')
                    THEN /\ pc' = "done"
                         /\ i' = i
                         /\ hist' = [Seen(hist, metrics["nll"], FALSE) EXCEPT !.broke = TRUE]
                    ELSE /\ i' = i + 1
                         /\ pc' = IF i + 1 < epochs THEN "opt" ELSE "done"
                         /\ hist' = Seen(hist, metrics["nll"], FALSE)
                 /\ UNCHANGED <<best_val_nll, disk, saved_from>>
       ELSE /\ i' = i + 1
            /\ pc' = IF i + 1 < epochs THEN "opt" ELSE "done"
            /\ UNCHANGED <<best_val_nll, steps_since_improvement, disk, saved_from, hist>>
    /\ UNCHANGED <<trainerVars, default_metrics, epochs, patience,
                   metrics_list, uses_default, gp_metrics, metric_dict, error,
                   calls, trainers, numVars>>

(* The consumer drops the generator before it is exhausted *)
Close ==
    /\ pc \in {"created", "suspended"}
    /\ pc' = "closed"
    /\ UNCHANGED <<trainerVars, disk, saved_from, default_metrics, callVars, calls, trainers,
                   numVars>>

Next ==
    \/ /\ CanConstruct
       /\ \E dir \in BOOLEAN : Construct(MaxPoints, MaxPoints, dir)
    \/ Predict
    \/ /\ CanCall
       /\ \E e \in 0..MaxEpochs, p \in 0..MaxPatience, ml \in MetricLists :
             Call(e, p, ml, FALSE)
    \/ /\ CanCall
       /\ \E e \in 0..MaxEpochs, p \in 0..MaxPatience : Call(e, p, <<>>, TRUE)
    \/ Start
    \/ OptimizeCycle
    \/ ComputeMetrics
    \/ Resume
    \/ Close


Spec == Init /\ [][Next]_vars

NextCkpt ==
    \/ /\ CanConstruct
       /\ Construct(MaxPoints, MaxPoints, TRUE)
    \/ Predict
    \/ /\ CanCall
       /\ \E e \in 1..FewEpochs, p \in {0, FewPatience}, ml \in FewMetricLists :
             Call(e, p, ml, FALSE)
    \/ /\ CanCall
       /\ \E e \in 1..FewEpochs, p \in {0, FewPatience} : Call(e, p, <<>>, TRUE)
    \/ Start
    \/ OptimizeCycle
    \/ ComputeMetrics
    \/ Resume
    \/ Close

SpecCkpt == InitCkpt /\ [][NextCkpt]_vars

(* Several trainers, with and without a checkpoint directory, and several   *)
(* train_model calls, which share the function's default `metrics` list     *)
InitCalls ==
    InitTrainer /\ max_calls = MaxCalls /\ max_trainers = MaxTrainers /\ max_steps = FewSteps

NextCalls ==
    \/ /\ CanConstruct
       /\ \E dir \in BOOLEAN : Construct(MaxPoints, MaxPoints, dir)
    \/ Predict
    \/ /\ CanCall
       /\ \E e \in 1..FewEpochs, p \in {0, FewPatience}, ml \in FewMetricLists :
             Call(e, p, ml, FALSE)
    \/ /\ CanCall
       /\ \E e \in 1..FewEpochs, p \in {0, FewPatience} : Call(e, p, <<>>, TRUE)
    \/ Start
    \/ OptimizeCycle
    \/ ComputeMetrics
    \/ Resume
    \/ Close

SpecCalls == InitCalls /\ [][NextCalls]_vars

(* One trainer of any shapes, matching or not, and one call on it *)
NextShape ==
    \/ /\ CanConstruct
       /\ \E np \in 1..MaxPoints, no \in 1..MaxPoints, dir \in BOOLEAN :
             Construct(np, no, dir)
    \/ Predict
    \/ /\ CanCall
       /\ \E e \in 1..FewEpochs, p \in {0, FewPatience}, ml \in FewMetricLists :
             Call(e, p, ml, FALSE)
    \/ /\ CanCall
       /\ \E e \in 1..FewEpochs, p \in {0, FewPatience} : Call(e, p, <<>>, TRUE)
    \/ Start
    \/ OptimizeCycle
    \/ ComputeMetrics
    \/ Resume
    \/ Close

SpecShape == Init /\ [][NextShape]_vars

----------------------------------------------------------------------------
(* GPMetrics.sharpness and GPMetrics.variation on a vector of stddevs.       *)
(* Entries are whole numbers; results are in units of 1/Scale, rounded down; *)
(* a float64 division by zero gives NaN (0/0) or Inf (x/0), as numpy does.   *)
RECURSIVE Sum(_)
Sum(s) == IF s = <<>> THEN 0 ELSE Head(s) + Sum(Tail(s))

Square(s) == [k \in 1..Len(s) |-> s[k] * s[k]]

SqrtCap == Scale * (MaxLen + 1) * (MaxLen + 1) * (MaxStd + 1)
ISqrt(n) == CHOOSE r \in 0..SqrtCap : r * r <= n /\ (r + 1) * (r + 1) > n

FDiv(x, y) == IF y = 0 THEN (IF x = 0 THEN NaN ELSE Inf) ELSE x \div y

(* np.sqrt(np.mean(np.square(self.stddevs))) *)
sharpness(s) == ISqrt((Sum(Square(s)) * Scale * Scale) \div Len(s))

(* sqrt(sum((s - mean)^2)) / (mean * (len(s) - 1)), with numerator and        *)
(* denominator both multiplied by len(s) to stay in whole numbers             *)
variationDividesByLen(s) ==
    LET n == Len(s)
        dev == [k \in 1..n |-> n * s[k] - Sum(s)]
    IN FDiv(ISqrt(Sum(Square(dev)) * Scale * Scale), Sum(s) * n)

variation(s) ==
    LET n == Len(s)
        dev == [k \in 1..n |-> n * s[k] - Sum(s)]
    IN FDiv(ISqrt(Sum(Square(dev)) * Scale * Scale), Sum(s) * (n - 1))

StddevVectors == UNION {[1..n -> 0..MaxStd] : n \in 1..MaxLen}

InitNum ==
    /\ pc = "num"
    /\ InitState
    /\ max_calls = 0 /\ max_trainers = 0 /\ max_steps = 0
    /\ stddevs \in StddevVectors

(* read the two properties of a GPMetrics holding `stddevs` *)
Evaluate ==
    /\ pc = "num"
    /\ sharpness_out' = sharpness(stddevs)
    /\ variation_out' = variation(stddevs)
    /\ pc' = "num_done"
    /\ UNCHANGED <<trainerVars, disk, saved_from, default_metrics, callVars, calls,
                   trainers, max_calls, max_trainers, max_steps, stddevs>>

NextNum == Evaluate

SpecNum == InitNum /\ [][NextNum]_vars

----------------------------------------------------------------------------
(* Properties *)

Vocabulary == {"nll", "mae", "sharpness", "variation", "calibration_err",
               "residuals", "pis"}
Tracked == <<amplitude, length_scale, optimizer, loss, training_steps>>
EpochOfImprovement == hist.improved_at - hist.pre[5]

(* C1: in a call with patience = 3 whose validation NLL improves at some     *)
(* epoch and never afterwards, with epochs large enough, the loop ends        *)
(* exactly 3 optimizer steps after the improving epoch.                       *)
C1_StopsThreeStepsAfterImprovement ==
    (/\ pc = "done"
     /\ patience = 3
     /\ hist.improved_at >= 0
     /\ epochs >= EpochOfImprovement + 3)
    => hist.opt_steps = EpochOfImprovement + 3

(* C2: when train_model raises for an unknown metric name, the error names   *)
(* it and the call has performed no optimize_cycle: amplitude, length-scale, *)
(* optimizer state, loss and step counter are those from before the call.    *)
C2_UnknownMetricLeavesTrainerUntouched ==
    error.kind = "ValueError"
    => /\ error.name \in Range(metrics_list) \ GPMetricsAttrs
       /\ hist.opt_steps = 0
       /\ Tracked = hist.pre

(* C3: a call (epochs >= 1) passed the single metric m fails if and only if  *)
(* m is outside the vocabulary; for a name of the vocabulary the epoch       *)
(* completes and the snapshot holds m.                                       *)
C3_FailsIffOutsideVocabulary ==
    (/\ pc \in {"suspended", "failed"}
     /\ n_points = n_obs
     /\ epochs >= 1
     /\ Len(hist.passed) = 1)
    => /\ (pc = "failed") <=> (hist.passed[1] \notin Vocabulary)
       /\ pc = "suspended" => hist.passed[1] \in DOMAIN metric_dict

(* C4: with patience set or a checkpoint manager, every yielded snapshot     *)
(* holds "nll" and metrics["nll"] was assigned in that epoch (it is the NLL   *)
(* of the model at the current hyperparameters), requested or not.           *)
C4_NllTrackedEveryEpoch ==
    (pc = "suspended" /\ (patience # 0 \/ ckpt_manager))
    => /\ "nll" \in DOMAIN metric_dict
       /\ metric_dict["nll"] = Enc(amplitude, length_scale)
       /\ metrics["nll"] = Enc(amplitude, length_scale)

C4_Witness ==
    /\ pc = "suspended"
    /\ ~ckpt_manager /\ patience # 0
    /\ "nll" \notin Range(hist.passed)
    /\ hist.yields >= 2
    /\ "nll" \in DOMAIN metric_dict

(* C5: a trainer just constructed on a directory that holds a checkpoint has *)
(* the amplitude, length-scale, step counter and loss the saving trainer had *)
(* when it saved.                                                            *)
C5_CheckpointRoundTrip ==
    (pc = "idle" /\ ckpt_manager /\ disk # NoCkpt)
    => <<amplitude, length_scale, training_steps, loss>> = saved_from

C5_Witness ==
    /\ pc = "idle" /\ ckpt_manager /\ disk # NoCkpt
    /\ training_steps >= 2
    /\ amplitude # 1
    /\ loss # NaN

(* C6: construction is all-or-nothing: with a checkpoint in the directory    *)
(* every tracked variable holds the stored value, otherwise (no directory,   *)
(* or an empty one) every one holds its default; construction succeeds in    *)
(* both cases.                                                               *)
C6_RestoreAllOrNothing ==
    pc = "idle"
    => IF ckpt_manager /\ disk # NoCkpt
       THEN /\ training_steps = disk.step /\ amplitude = disk.amp
            /\ length_scale = disk.ls /\ loss = disk.loss
            /\ metrics["nll"] = disk.val_nll /\ metrics["mae"] = disk.val_mae
            /\ metrics["sharpness"] = disk.val_sharpness
            /\ metrics["variation"] = disk.val_coeff_var
            /\ metrics["calibration_err"] = disk.val_cal_err
       ELSE /\ training_steps = 0 /\ amplitude = 1 /\ length_scale = 1
            /\ loss = NaN
            /\ \A m \in MetricKeys : metrics[m] = NaN

C6_Witness ==
    /\ pc = "idle" /\ ckpt_manager /\ disk # NoCkpt
    /\ trainers = 2
    /\ metrics["nll"] # NaN /\ metrics["mae"] # NaN
    /\ metrics["sharpness"] = NaN
    /\ loss # NaN /\ training_steps # 0 /\ length_scale # 1

(* C7: a trainer whose index points and observations differ in number is     *)
(* never constructed.                                                        *)
C7_MismatchFailsConstruction ==
    pc # "none" => n_points = n_obs

(* C8: on a constructed trainer, amplitude and length-scale change only in   *)
(* the optimize_cycle step of train_model.                                   *)
C8_OnlyOptimizeCycleMutatesKernel ==
    [][(trainers' = trainers /\ (amplitude' # amplitude \/ length_scale' # length_scale))
        => (pc = "opt" /\ pc' = "metrics")]_vars

C8_Witness ==
    /\ pc = "suspended"
    /\ hist.yields >= 2
    /\ REQUIRES_MEAN \cap Range(metrics_list) # {}
    /\ amplitude # hist.pre[1] /\ length_scale # hist.pre[2]

(* C9 as stated: for every non-empty vector of non-negative stddevs both     *)
(* variation and sharpness are defined and >= 0, and sharpness = 0 iff every *)
(* stddev is 0.                                                              *)
AllZero(s) == \A k \in 1..Len(s) : s[k] = 0

C9_BothDefinedAndNonNegative ==
    pc = "num_done"
    => /\ sharpness_out # NaN /\ sharpness_out >= 0
       /\ variation_out # NaN /\ variation_out >= 0
       /\ (sharpness_out = 0) <=> AllZero(stddevs)

(* C9 amended: sharpness is defined, >= 0, and 0 iff every stddev is 0;      *)
(* variation is NaN exactly when the vector has one entry or is all zero,    *)
(* and is defined and >= 0 otherwise.                                        *)
C9_SharpnessAndVariation ==
    pc = "num_done"
    => /\ sharpness_out # NaN /\ sharpness_out >= 0
       /\ (sharpness_out = 0) <=> AllZero(stddevs)
       /\ (variation_out = NaN) <=> (Len(stddevs) = 1 \/ AllZero(stddevs))
       /\ variation_out # NaN => variation_out >= 0

C9_Witness ==
    /\ pc = "num_done"
    /\ Len(stddevs) >= 2 /\ ~AllZero(stddevs)
    /\ \E k \in 1..Len(stddevs) : stddevs[k] = 0
    /\ variation_out > 0 /\ sharpness_out > 0

(* C10 as stated: on a trainer with a checkpoint manager the tracked best    *)
(* NLL starts at +infinity, and an epoch writes a checkpoint exactly when    *)
(* its NLL is below the NLLs of the call's earlier epochs; the checkpoint is *)
(* keyed by the step counter.                                                *)
AfterEpoch == pc \in {"opt", "done"} /\ hist.yields >= 1

InCall == pc \in {"created", "opt", "metrics", "suspended", "done", "failed", "closed"}

C11_StepCounterCountsEpochs ==
    /\ [][trainers' = trainers =>
            /\ training_steps' >= training_steps
            /\ training_steps' # training_steps =>
                  /\ pc = "opt" /\ pc' = "metrics"
                  /\ training_steps' = training_steps + 1
                  /\ hist'.opt_steps = hist.opt_steps + 1
            /\ hist'.yields # hist.yields =>
                  (pc' = "suspended" /\ hist'.yields = hist'.opt_steps)]_vars
    /\ [](InCall => /\ training_steps = hist.pre[5] + hist.opt_steps
                     /\ hist.yields \in {hist.opt_steps - 1, hist.opt_steps}
                     /\ pc \in {"opt", "suspended", "done"} => hist.yields = hist.opt_steps)
    /\ []((pc = "done" /\ patience = 0)
            => /\ hist.opt_steps = epochs
               /\ hist.yields = epochs
               /\ training_steps = hist.pre[5] + epochs)

C11_Witness ==
    /\ pc = "done" /\ patience = 0 /\ ckpt_manager
    /\ epochs = MaxEpochs
    /\ hist.yields = MaxEpochs
    /\ training_steps = MaxEpochs
    /\ steps_since_improvement >= 3

(* C12: in every snapshot yielded, each requested metric was computed from   *)
(* a mean and from stddevs refreshed after that epoch's optimize_cycle: the  *)
(* stored predictions a metric reads were taken at the current step counter. *)
C12_MetricsReadRefreshedPredictions ==
    pc = "suspended"
    => \A m \in Range(metrics_list) :
          /\ m \in ReadsMean => gp_metrics.mean_step = training_steps
          /\ m \in ReadsStddev => gp_metrics.std_step = training_steps

(* A call with `metrics` omitted, patience unset and no checkpoint manager   *)
(* yields snapshots whose only key is "loss", whatever calls came before.    *)
OmittedMetricsYieldOnlyLoss ==
    (pc = "suspended" /\ uses_default /\ patience = 0 /\ ~ckpt_manager)
    => DOMAIN metric_dict = {"loss"}

(* The list the caller passed still holds what it held at the call.          *)
PassedListUnmodified ==
    (InCall /\ ~uses_default) => metrics_list = hist.passed

(* C13: what a call computes depends only on its own arguments and its       *)
(* trainer, never on earlier calls: after any earlier calls, a call with     *)
(* `metrics` omitted, patience unset and no checkpoint manager yields        *)
(* snapshots whose only key is "loss", and train_model never modifies a list *)
(* passed by the caller.                                                     *)
C13_CallsAreIndependent == OmittedMetricsYieldOnlyLoss /\ PassedListUnmodified
====
